---- MODULE Spec2Model ----
(***************************************************************************)
(* Refresh-token rotation and reuse detection of the Express auth          *)
(* template (src/controllers/authController.ts, src/utils/jwt.ts,          *)
(* src/models/User.ts, controllers/userController.ts).                     *)
(*                                                                         *)
(* Time is counted in whole seconds: Date.now(), new Date() and the JWT    *)
(* iat/exp claims are all sampled from the one clock `now`.                *)
(***************************************************************************)
EXTENDS Integers, Sequences, FiniteSets, TLC

\* ------------------------------------------------------------------ bounds
MaxUsers  == 2      \* user documents ever created
MaxReqs   == 2      \* refresh requests in flight at once
MaxMints  == 3      \* token pairs minted in one run
MaxSteps  == 3      \* short clock steps after the start
MaxSigned == 2      \* tokens signed in one run of the token codec
MaxCalls  == 2      \* API calls the example client has under way
MaxAttempts == 3    \* refresh attempts and retries counted per API call
TickSec   == 20     \* length of a short clock step, in seconds

\* ------------------------------------------------------- program constants
GraceSec         == 30        \* 30 * 1000 ms
SevenDaysSec     == 604800    \* 7 * 24 * 60 * 60 s
RefreshExpirySec == 604800    \* expiresIn "7d"
AccessExpirySec  == 900       \* expiresIn "15m"

RefreshSecret == "refresh-secret"
AccessSecret  == "access-secret"
OtherSecret   == "other-secret"

UserIds   == 1..MaxUsers
Reqs      == 1..MaxReqs
Emails    == {"a@x.com"}
TwoEmails == Emails \cup {"b@x.com"}
\* addresses as clients type them: with a capital, and a gmail address with a
\* dot in its local part
RawEmails == TwoEmails \cup {"A@x.com", "a.b@gmail.com"}
Passwords == {"pw1", "pw2"}
NoPassword == ""

\* the instants the clock visits: the first minute, and the turn of the
\* seventh day
Instants ==
    {k * TickSec : k \in 0..MaxSteps} \cup {SevenDaysSec, SevenDaysSec + TickSec}

VARIABLES
    users,      \* the User collection: _id -> document
    nextId,     \* next _id handed out by User.create
    now,        \* the clock
    rq,         \* refresh requests: position in the handler, locals, response
    issued,     \* every refresh token minted so far (what clients may hold)
    mints,      \* handler runs that mint a token pair, started so far
    rotated,    \* every successful refresh: the token presented, when, how
    res,        \* the response of the other handlers, until it is sent
    client      \* the example client: its stored access token and its API calls

vars == <<users, nextId, now, rq, issued, mints, rotated, res, client>>
serverVars == <<users, nextId, now, rq, issued, mints, rotated, res>>

\* ------------------------------------------------------------------ tokens
NoToken == [secret |-> "", userId |-> 0, email |-> "", iat |-> 0, exp |-> 0]

\* jwt.sign(payload, secret, {expiresIn})
Sign(secret, userId, email, t, ttl) ==
    [secret |-> secret, userId |-> userId, email |-> email, iat |-> t, exp |-> t + ttl]

generateAccessToken(userId, email, t) ==
    Sign(AccessSecret, userId, email, t, AccessExpirySec)

generateRefreshToken(userId, email, t) ==
    Sign(RefreshSecret, userId, email, t, RefreshExpirySec)

\* a verification that checks the key and not the expiry
JwtVerifyNoExpiry(tok, secret, t) == tok.secret = secret

\* a verification that checks the expiry and not the key
JwtVerifyAnyKey(tok, secret, t) == t < tok.exp

\* jwt.verify(token, secret): the signature, then clockTimestamp >= exp
JwtVerify(tok, secret, t) == tok.secret = secret /\ t < tok.exp

verifyAccessToken(tok, t) == JwtVerify(tok, AccessSecret, t)

verifyRefreshToken(tok, t) == JwtVerify(tok, RefreshSecret, t)

\* what jwt.verify returns: the decoded payload; NoToken stands for the throw
Decoded(tok, secret, t) ==
    IF JwtVerify(tok, secret, t) THEN [tok EXCEPT !.secret = ""] ELSE NoToken

\* the access token minted in the same handler run as refresh token tok
AccessOf(tok) == generateAccessToken(tok.userId, tok.email, tok.iat)

\* a token with the same payload signed with a key the server does not use
Forge(tok) == [tok EXCEPT !.secret = OtherSecret]

\* ------------------------------------------------------------ User schema
SchemaPaths == {"email", "password", "refreshToken", "refreshHistory"}

\* bcrypt.hash in the pre-save hook, bcrypt.compare in comparePassword
Hash(p) == <<"bcrypt", p>>

\* a comparison that accepts any candidate
comparePasswordAny(doc, candidate) == TRUE

comparePassword(doc, candidate) == doc.password = Hash(candidate)

\* the setters of the email path, lowercase: true and trim: true
SchemaEmail(e) == IF e = "A@x.com" THEN "a@x.com" ELSE e

\* validator.normalizeEmail with its defaults: the address in lower case, and
\* for gmail.com the dots of the local part removed
normalizeEmail(e) ==
    CASE e = "A@x.com"       -> "a@x.com"
      [] e = "a.b@gmail.com" -> "ab@gmail.com"
      [] OTHER               -> e

NewDoc(email, password) ==
    [email |-> SchemaEmail(email), password |-> Hash(password),
     refreshToken |-> <<>>, refreshHistory |-> <<>>]

TokenEntry(tok, t) == [token |-> tok, createdAt |-> t, lastUsedAt |-> t]

HistoryEntry(tok, t) == [token |-> tok, lastUsedAt |-> t]

\* an update {$set: {path: val}} under Mongoose strict mode: a path the
\* schema does not declare is dropped from the update
StrictSet(doc, path, val) ==
    IF path \in SchemaPaths THEN [doc EXCEPT ![path] = val] ELSE doc

\* an update that empties refreshToken whatever the token
PullEverything(doc, tok) == [doc EXCEPT !.refreshToken = <<>>]

\* {$pull: {refreshToken: {token: tok}}}
PullToken(doc, tok) ==
    [doc EXCEPT !.refreshToken = SelectSeq(@, LAMBDA e : e.token # tok)]

\* a clean-up that removes nothing
PullNothing(doc, cutoff) == doc

\* {$pull: {refreshToken: {createdAt: {$lt: cutoff}}}}
PullOlderThan(doc, cutoff) ==
    [doc EXCEPT !.refreshToken = SelectSeq(@, LAMBDA e : ~(e.createdAt < cutoff))]

\* findByIdAndUpdate: no document, no change
UpdateById(id, F(_)) ==
    IF id \in DOMAIN users THEN [users EXCEPT ![id] = F(@)] ELSE users

ActiveTokens(doc) == {doc.refreshToken[i].token : i \in DOMAIN doc.refreshToken}

\* user.refreshToken.find(tokenObj => tokenObj.token === refreshToken)
tokenData(doc, tok) == tok \in ActiveTokens(doc)

\* user.refreshHistory.find(t => Date.now() - t.lastUsedAt.getTime() < 30 * 1000)
recentlyUsed(doc, t) ==
    \E i \in DOMAIN doc.refreshHistory : t - doc.refreshHistory[i].lastUsedAt < GraceSec

\* new Date(decoded.iat * 1000 + 7 days) < new Date()
decodedExpired(tok, t) == tok.iat + SevenDaysSec < t

\* the update issued when reuse is detected: {$set: {refrehToken: []}}
ReuseRevoke(doc) == StrictSet(doc, "refrehToken", <<>>)

\* User.findOne({email: e}): the filter is cast through the setters of the path
FindByEmail(e) == {u \in DOMAIN users : users[u].email = SchemaEmail(e)}

\* password is declared select: false
HiddenPaths == {"password"}

\* a path the query did not load reads as undefined
Undefined == "undefined"

\* Query.select(string): the string is split at white space; a word "-path"
\* excludes the path, a word "+path" forces a select: false path in, any
\* other word includes its path, and one including word makes the projection
\* inclusive: only the included paths are loaded. A lone "+" names no path.
SelectedPaths(words) ==
    LET wordsOf(sign) == {words[i].path : i \in {j \in DOMAIN words : words[j].sign = sign}}
    IN  IF wordsOf("") # {}
        THEN wordsOf("") \cap SchemaPaths
        ELSE ((SchemaPaths \ HiddenPaths) \ wordsOf("-")) \cup (wordsOf("+") \cap SchemaPaths)

\* the document as the handler sees it
Loaded(doc, words) ==
    [f \in SchemaPaths |-> IF f \in SelectedPaths(words) THEN doc[f] ELSE Undefined]

\* select("+password"), the words of the projection as probably meant
LoginSelectJoined == <<[sign |-> "+", path |-> "password"]>>

\* select("+ password"): the two words "+" and "password"
LoginSelect == <<[sign |-> "+", path |-> ""], [sign |-> "", path |-> "password"]>>

\* ---------------------------------------------------------------- requests
\* An accepted request keeps req.cookies.refreshToken (token), the user it
\* read with findById (userId, email) and whether tokenData was missing
\* (grace) and, once computed, its sevenDaysAgo (cutoff); a finished one holds
\* the response (status, cookie, minted) next to the cookie it came with.
\* a field the request body does not have
Missing == "(missing)"

NoBody == [email |-> Missing, password |-> Missing, name |-> Missing,
           currentPassword |-> Missing, newPassword |-> Missing]

IdleReq == [pc |-> "idle", token |-> NoToken, userId |-> 0, email |-> "",
            password |-> "", grace |-> FALSE, status |-> 0, cookie |-> "none",
            minted |-> NoToken, cutoff |-> 0, overtaken |-> FALSE,
            mw |-> "none", body |-> NoBody]

\* a response that leaves the cookie as it is
RespondKeepCookie(r, st, ck) ==
    [rq EXCEPT ![r] = [IdleReq EXCEPT !.pc = "done", !.status = st]]

Respond(r, st, ck) ==
    [rq EXCEPT ![r] = [IdleReq EXCEPT !.pc = "done", !.status = st, !.cookie = ck]]

\* the response to a request that came with the cookie tok
Answer(r, tok, st, ck) == [Respond(r, st, ck) EXCEPT ![r].token = tok]

Proceed(r, tok, viaGrace) ==
    [rq EXCEPT ![r] = [IdleReq EXCEPT !.pc = "prune", !.token = tok,
                                      !.userId = tok.userId,
                                      !.email = users[tok.userId].email,
                                      !.grace = viaGrace]]

\* the response of register, login, logout, updatePassword and deleteUser:
\* res.status(..).json(..), the refreshToken cookie (set to token, cleared or
\* left alone) and the accessToken of the body
NoRes == [op |-> "", status |-> 0, body |-> "", cookie |-> "none",
          token |-> NoToken, access |-> NoToken]

Reply(op, st, body, ck) ==
    [NoRes EXCEPT !.op = op, !.status = st, !.body = body, !.cookie = ck]

\* 201 / 200 with the token pair: the refresh token in the cookie, the access
\* token in the body
ReplyPair(op, st, body, tok) ==
    [Reply(op, st, body, "set") EXCEPT !.token = tok, !.access = AccessOf(tok)]

\* A finished response is sent before anything else happens: no handler
\* reads it, so the order of sending it and of the other steps is immaterial.
NoneDone == res = NoRes /\ \A r \in Reqs : rq[r].pc # "done"

\* request slots are handed out lowest first
FreeSlot(r) ==
    /\ NoneDone
    /\ rq[r].pc = "idle"
    /\ \A q \in Reqs : q < r => rq[q].pc # "idle"

\* ------------------------------------------------------- example client
Calls == 1..MaxCalls

\* what comes back for a request: an HTTP status, or no response at all
NoResponse == 0
Statuses == {200, 401, 403, 404, 500, NoResponse}

\* one call through the api instance: where it stands, the _retry mark on its
\* config, how often the interceptor has refreshed and retried for it
\* (bookkeeping), and the status of the error it was rejected with
IdleCall == [pc |-> "idle", retry |-> FALSE, refreshes |-> 0, retries |-> 0, status |-> 0]

\* an interceptor that does not look at the _retry mark
NeverRetried(c) == TRUE

\* !originalRequest._retry
NotRetried(c) == ~client.calls[c].retry

Init ==
    /\ users = <<>>
    /\ nextId = 1
    /\ now = 0
    /\ rq = [r \in Reqs |-> IdleReq]
    /\ issued = {}
    /\ mints = 0
    /\ rotated = {}
    /\ res = NoRes
    /\ client = [accessToken |-> "none", location |-> "app",
                 calls |-> [c \in Calls |-> IdleCall]]

\* ---------------------------------------------------------------- handlers
\* what a client can put in the refreshToken cookie or the Bearer header
Presentable ==
    {NoToken} \cup issued \cup {Forge(t) : t \in issued} \cup {AccessOf(t) : t \in issued}

\* an authenticate that also wants a live session of the user
authenticateSession(bearer) ==
    /\ bearer # NoToken
    /\ verifyAccessToken(bearer, now)
    /\ bearer.userId \in DOMAIN users
    /\ users[bearer.userId].refreshToken # <<>>

\* an authenticate that trusts the verified token without looking the user up
authenticateTokenOnly(bearer) ==
    /\ bearer # NoToken
    /\ verifyAccessToken(bearer, now)

\* authenticate: the Bearer token verifies as an access token and its user exists
authenticate(bearer) ==
    /\ bearer # NoToken
    /\ verifyAccessToken(bearer, now)
    /\ bearer.userId \in DOMAIN users

\* the 401 of authenticate: no header, jwt.verify threw, findById found nothing
Unauthorized(op, bearer) ==
    Reply(op, 401,
          IF bearer = NoToken THEN "No token provided"
          ELSE IF ~verifyAccessToken(bearer, now) THEN "Invalid or expired token"
          ELSE "Unauthorized",
          "none")

\* User.create without the first refresh token
CreateUserNoToken(id, e, p, tok) ==
    users @@ (id :> NewDoc(e, p))

\* User.create, the first refresh token pushed, save
CreateUser(id, e, p, tok) ==
    users @@ (id :> [NewDoc(e, p) EXCEPT !.refreshToken = <<TokenEntry(tok, now)>>])

\* register, run without another register in between: findOne({email}) and
\* the 409, else User.create, push the first refresh token, save, 201
Register(e, p) ==
    /\ NoneDone
    /\ IF FindByEmail(e) # {}
       THEN /\ res' = Reply("register", 409, "User with this email already exists", "none")
            /\ UNCHANGED <<users, issued, nextId, mints>>
       ELSE /\ nextId <= MaxUsers
            /\ mints < MaxMints
            /\ LET tok == generateRefreshToken(nextId, SchemaEmail(e), now)
               IN  /\ users' = CreateUser(nextId, e, p, tok)
                   /\ issued' = issued \cup {tok}
                   /\ res' = ReplyPair("register", 201, "User registered succesfully", tok)
            /\ nextId' = nextId + 1
            /\ mints' = mints + 1
    /\ UNCHANGED <<now, rq, rotated, client>>

\* register, first half: findOne({email}); a known email is answered 409, else
\* the request goes on to User.create with the email and password of its body
RegisterFind(r, e, p) ==
    /\ FreeSlot(r)
    /\ IF FindByEmail(e) # {}
       THEN /\ res' = Reply("register", 409, "User with this email already exists", "none")
            /\ UNCHANGED <<rq, mints>>
       ELSE /\ nextId + Cardinality({q \in Reqs : rq[q].pc = "create"}) <= MaxUsers
            /\ mints < MaxMints
            /\ rq' = [rq EXCEPT ![r] = [IdleReq EXCEPT !.pc = "create", !.email = e,
                                                       !.password = p]]
            /\ mints' = mints + 1
            /\ res' = res
    /\ UNCHANGED <<users, nextId, now, issued, rotated, client>>

\* an email path without a unique index
NoUniqueIndex(e, self) == FALSE

\* the unique index on email: a write of e to document self (0 for a new
\* document) is rejected when another document holds it
DuplicateKey(e, self) ==
    \E v \in DOMAIN users \ {self} : users[v].email = SchemaEmail(e)

\* register, second half: User.create under the unique index on email (a
\* duplicate key rejects, the catch answers 500), push the first refresh
\* token, save, 201
RegisterCreate(r) ==
    /\ NoneDone
    /\ rq[r].pc = "create"
    /\ IF DuplicateKey(rq[r].email, 0)
       THEN /\ res' = Reply("register", 500, "Internal server error", "none")
            /\ UNCHANGED <<users, issued, nextId>>
       ELSE LET tok == generateRefreshToken(nextId, SchemaEmail(rq[r].email), now)
            IN  /\ users' = CreateUser(nextId, rq[r].email, rq[r].password, tok)
                /\ issued' = issued \cup {tok}
                /\ res' = ReplyPair("register", 201, "User registered succesfully", tok)
                /\ nextId' = nextId + 1
    /\ rq' = [rq EXCEPT ![r] = IdleReq]
    /\ UNCHANGED <<now, mints, rotated, client>>

\* login answering an unknown email differently from a wrong password
LoginTellsApart(e, p) ==
    /\ NoneDone
    /\ IF \E u \in FindByEmail(normalizeEmail(e)) : comparePassword(users[u], p)
       THEN /\ mints < MaxMints
            /\ \E u \in FindByEmail(normalizeEmail(e)) :
                 LET user == Loaded(users[u], LoginSelect)
                     tok  == generateRefreshToken(u, user.email, now)
                 IN  /\ users' = IF "refreshToken" \in SelectedPaths(LoginSelect)
                                  THEN [users EXCEPT ![u].refreshToken =
                                                        Append(@, TokenEntry(tok, now))]
                                  ELSE users
                     /\ issued' = issued \cup {tok}
                     /\ res' = ReplyPair("login", 200, "Login successfuly", tok)
            /\ mints' = mints + 1
       ELSE /\ res' = IF FindByEmail(normalizeEmail(e)) = {}
                      THEN Reply("login", 404, "User not found", "none")
                      ELSE Reply("login", 401, "Invalid credentials", "none")
            /\ UNCHANGED <<users, issued, mints>>
    /\ UNCHANGED <<nextId, now, rq, rotated, client>>

\* a login that also empties the rotation history
LoginClearsHistory(e, p) ==
    /\ NoneDone
    /\ IF \E u \in FindByEmail(normalizeEmail(e)) : comparePassword(users[u], p)
       THEN /\ mints < MaxMints
            /\ \E u \in FindByEmail(normalizeEmail(e)) :
                 LET user == Loaded(users[u], LoginSelect)
                     tok  == generateRefreshToken(u, user.email, now)
                 IN  /\ users' = [users EXCEPT ![u].refreshHistory = <<>>]
                     /\ issued' = issued \cup {tok}
                     /\ res' = ReplyPair("login", 200, "Login successfuly", tok)
            /\ mints' = mints + 1
       ELSE /\ res' = Reply("login", 401, "Invalid credentials", "none")
            /\ UNCHANGED <<users, issued, mints>>
    /\ UNCHANGED <<nextId, now, rq, rotated, client>>

\* login, behind validateLogin, which replaces the email of the body by its
\* normalizeEmail: a wrong email or password changes nothing (401); otherwise the pair
\* is minted from the document findOne({email}).select("+ password") returned,
\* user.refreshToken?.push(..) adds the refresh token when that document has
\* the array, and save writes what was modified
Login(e, p) ==
    /\ NoneDone
    /\ IF \E u \in FindByEmail(normalizeEmail(e)) : comparePassword(users[u], p)
       THEN /\ mints < MaxMints
            /\ \E u \in FindByEmail(normalizeEmail(e)) :
                 LET user == Loaded(users[u], LoginSelect)
                     tok  == generateRefreshToken(u, user.email, now)
                 IN  /\ users' = IF "refreshToken" \in SelectedPaths(LoginSelect)
                                  THEN [users EXCEPT ![u].refreshToken =
                                                        Append(@, TokenEntry(tok, now))]
                                  ELSE users
                     /\ issued' = issued \cup {tok}
                     /\ res' = ReplyPair("login", 200, "Login successfuly", tok)
            /\ mints' = mints + 1
       ELSE /\ res' = Reply("login", 401, "Invalid credentials", "none")
            /\ UNCHANGED <<users, issued, mints>>
    /\ UNCHANGED <<nextId, now, rq, rotated, client>>

\* logout pulling the cookie's token from whichever document holds it
LogoutAnyOwner(bearer, tok, stored) ==
    /\ NoneDone
    /\ IF ~authenticate(bearer)
       THEN /\ res' = Unauthorized("logout", bearer)
            /\ users' = users
       ELSE IF tok # NoToken /\ ~stored
       THEN /\ res' = Reply("logout", 500, "Server error during logout", "none")
            /\ users' = users
       ELSE /\ users' = IF tok # NoToken
                        THEN [u \in DOMAIN users |-> PullToken(users[u], tok)]
                        ELSE users
            /\ res' = Reply("logout", 200, "Logged out succesfully", "cleared")
    /\ UNCHANGED <<nextId, now, rq, issued, mints, rotated, client>>

\* logout (behind authenticate): $pull the cookie's token from the caller's
\* document, clear the cookie, 200; stored is whether the update went through
\* (when it throws, the catch answers 500)
Logout(bearer, tok, stored) ==
    /\ NoneDone
    /\ IF ~authenticate(bearer)
       THEN /\ res' = Unauthorized("logout", bearer)
            /\ users' = users
       ELSE IF tok # NoToken /\ ~stored
       THEN /\ res' = Reply("logout", 500, "Server error during logout", "none")
            /\ users' = users
       ELSE /\ users' = IF tok # NoToken /\ bearer.userId \in DOMAIN users
                        THEN [users EXCEPT ![bearer.userId] = PullToken(@, tok)]
                        ELSE users
            /\ res' = Reply("logout", 200, "Logged out succesfully", "cleared")
    /\ UNCHANGED <<nextId, now, rq, issued, mints, rotated, client>>

\* PUT /password: authenticate, validatePasswordChange (which lets only a new
\* password different from the current one through), then updatePassword:
\* re-verify the current password, store the new one, then
\* user.refreshToken = [] and save
UpdatePassword(bearer, cur, new) ==
    /\ NoneDone
    /\ cur # new
    /\ IF ~authenticate(bearer)
       THEN /\ res' = Unauthorized("updatePassword", bearer)
            /\ users' = users
       ELSE IF bearer.userId \notin DOMAIN users
       THEN /\ res' = Reply("updatePassword", 404, "User not found", "none")
            /\ users' = users
       ELSE IF ~comparePassword(users[bearer.userId], cur)
       THEN /\ res' = Reply("updatePassword", 401, "Current password is incorrect", "none")
            /\ users' = users
       ELSE /\ users' = [users EXCEPT ![bearer.userId] =
                           StrictSet(StrictSet(@, "password", Hash(new)), "refreshToken", <<>>)]
            /\ res' = Reply("updatePassword", 200,
                            "Password updated succesfully. Please log in again.", "none")
    /\ UNCHANGED <<nextId, now, rq, issued, mints, rotated, client>>

\* DELETE /account: authenticate, validateUserDeletion (400 without a
\* password), then deleteUser: re-verify the password, findByIdAndDelete,
\* clear the cookie
DeleteUser(bearer, p) ==
    /\ NoneDone
    /\ IF ~authenticate(bearer)
       THEN /\ res' = Unauthorized("deleteUser", bearer)
            /\ users' = users
       ELSE IF p = NoPassword
       THEN /\ res' = Reply("deleteUser", 400, "Password is required", "none")
            /\ users' = users
       ELSE IF bearer.userId \notin DOMAIN users
       THEN /\ res' = Reply("deleteUser", 400, "User not found", "none")
            /\ users' = users
       ELSE IF ~comparePassword(users[bearer.userId], p)
       THEN /\ res' = Reply("deleteUser", 401, "Password is incorect", "none")
            /\ users' = users
       ELSE /\ users' = [v \in DOMAIN users \ {bearer.userId} |-> users[v]]
            /\ res' = Reply("deleteUser", 200, "Account deleted successfully", "cleared")
    /\ UNCHANGED <<nextId, now, rq, issued, mints, rotated, client>>

\* PUT /profile, first half: authenticate, validateProfileUpdate (which
\* replaces the email of the body by its normalizeEmail), then updateUser up
\* to user.email = email: an email other than the user's own that another
\* document holds is answered 400; the user's own email saves nothing (200)
UpdateUserFind(r, bearer, e) ==
    /\ FreeSlot(r)
    /\ LET q == normalizeEmail(e)
       IN  IF ~authenticate(bearer)
           THEN /\ res' = Unauthorized("updateUser", bearer)
                /\ rq' = rq
           ELSE IF bearer.userId \notin DOMAIN users
           THEN /\ res' = Reply("updateUser", 404, "User not found", "none")
                /\ rq' = rq
           ELSE IF q = users[bearer.userId].email
           THEN /\ res' = Reply("updateUser", 200, "Profile updated successfully", "none")
                /\ rq' = rq
           ELSE IF FindByEmail(q) # {}
           THEN /\ res' = Reply("updateUser", 400, "Email already in use", "none")
                /\ rq' = rq
           ELSE /\ res' = res
                /\ rq' = [rq EXCEPT ![r] = [IdleReq EXCEPT !.pc = "save",
                                                           !.userId = bearer.userId,
                                                           !.email = q]]
    /\ UNCHANGED <<users, nextId, now, issued, mints, rotated, client>>

\* PUT /profile, second half: user.save() writes the email under the unique
\* index; a duplicate key or a document deleted meanwhile rejects and the
\* catch answers 500
UpdateUserSave(r) ==
    /\ NoneDone
    /\ rq[r].pc = "save"
    /\ IF rq[r].userId \notin DOMAIN users \/ DuplicateKey(rq[r].email, rq[r].userId)
       THEN /\ res' = Reply("updateUser", 500, "Internal server error", "none")
            /\ users' = users
       ELSE /\ res' = Reply("updateUser", 200, "Profile updated successfully", "none")
            /\ users' = [users EXCEPT ![rq[r].userId] =
                            StrictSet(@, "email", SchemaEmail(rq[r].email))]
    /\ rq' = [rq EXCEPT ![r] = IdleReq]
    /\ UNCHANGED <<nextId, now, issued, mints, rotated, client>>

\* the response goes out
Send ==
    /\ res # NoRes
    /\ res' = NoRes
    /\ UNCHANGED <<users, nextId, now, rq, issued, mints, rotated, client>>

\* ----------------------------------------------------------------- refresh
\* the handler's verdict on the presented cookie, in the order of the code:
\* no cookie, jwt.verify, findById, the refreshToken lookup, the
\* refreshHistory lookup, the seven-day test
Decide(tok) ==
    IF tok = NoToken THEN "noToken"
    ELSE IF ~verifyRefreshToken(tok, now) THEN "throws"
    ELSE IF tok.userId \notin DOMAIN users THEN "noUser"
    ELSE IF tokenData(users[tok.userId], tok) THEN "rotate"
    ELSE IF recentlyUsed(users[tok.userId], now) THEN "grace"
    ELSE IF decodedExpired(tok, now) THEN "expired"
    ELSE "reuse"

\* refresh up to its verdict: the failures answer at once, the catch block
\* answers a throw, the two accepting verdicts go on to the updates
RefreshStart(r, tok) ==
    /\ FreeSlot(r)
    /\ LET d == Decide(tok)
       IN  /\ d \in {"rotate", "grace"} => mints < MaxMints
           /\ rq' = CASE d = "noToken" -> Respond(r, 401, "none")
                      [] d = "throws"  -> Answer(r, tok, 500, "cleared")
                      [] d = "noUser"  -> Answer(r, tok, 403, "cleared")
                      [] d = "rotate"  -> Proceed(r, tok, FALSE)
                      [] d = "grace"   -> Proceed(r, tok, TRUE)
                      [] d = "expired" -> Answer(r, tok, 401, "cleared")
                      [] d = "reuse"   -> Answer(r, tok, 403, "cleared")
           /\ users' = IF d = "reuse" THEN UpdateById(tok.userId, ReuseRevoke) ELSE users
           /\ mints' = IF d \in {"rotate", "grace"} THEN mints + 1 ELSE mints
    /\ UNCHANGED <<nextId, now, issued, rotated, res, client>>

\* clean up refresh tokens older than seven days
RefreshPrune(r) ==
    /\ NoneDone
    /\ rq[r].pc = "prune"
    /\ users' = UpdateById(rq[r].userId, LAMBDA d : PullOlderThan(d, now - SevenDaysSec))
    /\ rq' = [rq EXCEPT ![r].pc = "pull"]
    /\ UNCHANGED <<nextId, now, issued, mints, rotated, res, client>>

\* the same step, with sevenDaysAgo kept in the request record (bookkeeping:
\* the handler does not read it again)
RefreshPruneCutoff(r) ==
    /\ NoneDone
    /\ rq[r].pc = "prune"
    /\ users' = UpdateById(rq[r].userId, LAMBDA d : PullOlderThan(d, now - SevenDaysSec))
    /\ rq' = [rq EXCEPT ![r].pc = "pull", ![r].cutoff = now - SevenDaysSec]
    /\ UNCHANGED <<nextId, now, issued, mints, rotated, res, client>>

\* {refreshHistory: [], $pull: {refreshToken: {token: refreshToken}}}
RefreshPull(r) ==
    /\ NoneDone
    /\ rq[r].pc = "pull"
    /\ users' = UpdateById(rq[r].userId,
                    LAMBDA d : PullToken(StrictSet(d, "refreshHistory", <<>>), rq[r].token))
    /\ rq' = [rq EXCEPT ![r].pc = "push"]
    /\ UNCHANGED <<nextId, now, issued, mints, rotated, res, client>>

\* mint the new pair, $push it and the history entry, answer 200
RefreshPush(r) ==
    /\ NoneDone
    /\ rq[r].pc = "push"
    /\ LET old == rq[r].token
           new == generateRefreshToken(rq[r].userId, rq[r].email, now)
       IN  /\ users' = UpdateById(rq[r].userId,
                           LAMBDA d : [d EXCEPT
                               !.refreshToken = Append(@, TokenEntry(new, now)),
                               !.refreshHistory = Append(@, HistoryEntry(old, now))])
           /\ rq' = [rq EXCEPT ![r] = [IdleReq EXCEPT !.pc = "done", !.token = old,
                                                       !.status = 200,
                                                       !.cookie = "set", !.minted = new]]
           /\ issued' = issued \cup {new}
           /\ rotated' = rotated \cup {[token |-> old, at |-> now, grace |-> rq[r].grace]}
    /\ UNCHANGED <<nextId, now, mints, res, client>>

\* between the verdict and the 200
InFlight(r) == rq[r].pc \in {"prune", "pull", "push"}

\* bookkeeping for the claims about races: the refresh requests of user u that
\* are between their verdict and their response are marked as overtaken
MarkOvertaken(u) ==
    [r \in Reqs |-> IF InFlight(r) /\ rq[r].userId = u
                    THEN [rq[r] EXCEPT !.overtaken = TRUE]
                    ELSE rq[r]]

\* updatePassword as above, with the bookkeeping: a password change that
\* succeeds marks the refresh requests of its user that are in flight
UpdatePasswordInFlight(bearer, cur, new) ==
    /\ NoneDone
    /\ cur # new
    /\ IF ~authenticate(bearer)
       THEN /\ res' = Unauthorized("updatePassword", bearer)
            /\ users' = users
            /\ rq' = rq
       ELSE IF bearer.userId \notin DOMAIN users
       THEN /\ res' = Reply("updatePassword", 404, "User not found", "none")
            /\ users' = users
            /\ rq' = rq
       ELSE IF ~comparePassword(users[bearer.userId], cur)
       THEN /\ res' = Reply("updatePassword", 401, "Current password is incorrect", "none")
            /\ users' = users
            /\ rq' = rq
       ELSE /\ users' = [users EXCEPT ![bearer.userId] =
                           StrictSet(StrictSet(@, "password", Hash(new)), "refreshToken", <<>>)]
            /\ res' = Reply("updatePassword", 200,
                            "Password updated succesfully. Please log in again.", "none")
            /\ rq' = MarkOvertaken(bearer.userId)
    /\ UNCHANGED <<nextId, now, issued, mints, rotated, client>>

\* one of the three findByIdAndUpdate calls rejects (the store is unreachable):
\* the catch block clears the cookie and answers 500; updates already made stay
RefreshFail(r) ==
    /\ NoneDone
    /\ InFlight(r)
    /\ rq' = Answer(r, rq[r].token, 500, "cleared")
    /\ UNCHANGED <<users, nextId, now, issued, mints, rotated, res, client>>

\* the response has been sent; the slot serves the next request
Close(r) ==
    /\ rq[r].pc = "done"
    /\ rq' = [rq EXCEPT ![r] = IdleReq]
    /\ UNCHANGED <<users, nextId, now, issued, mints, rotated, res, client>>

\* !x for a body field: undefined and the empty string are falsy
Falsy(x) == x \in {Missing, ""}

\* validator.isEmail, on the addresses of the model
isValidEmail(e) == e \in RawEmails

\* validator.isLength(password, {min: 6})
isValidPassword(p) == Len(p) >= 6

\* validator.isLength(validator.trim(name), {min: 2, max: 50}); the names of
\* the model carry no white space
isValidName(n) == Len(n) >= 2 /\ Len(n) <= 50

\* the errors array of each middleware, as the fields it names
RegistrationErrors(b) ==
    (IF Falsy(b.email) \/ ~isValidEmail(b.email) THEN {"email"} ELSE {})
      \cup (IF Falsy(b.password) \/ ~isValidPassword(b.password) THEN {"password"} ELSE {})
      \cup (IF Falsy(b.name) \/ ~isValidName(b.name) THEN {"name"} ELSE {})

LoginErrors(b) ==
    (IF Falsy(b.email) \/ ~isValidEmail(b.email) THEN {"email"} ELSE {})
      \cup (IF Falsy(b.password) THEN {"password"} ELSE {})

ProfileUpdateErrors(b) ==
    (IF Falsy(b.name) /\ Falsy(b.email) THEN {"general"} ELSE {})
      \cup (IF b.name # Missing /\ ~isValidName(b.name) THEN {"name"} ELSE {})
      \cup (IF b.email # Missing /\ ~isValidEmail(b.email) THEN {"email"} ELSE {})

PasswordChangeErrors(b) ==
    (IF Falsy(b.currentPassword) THEN {"currentPassword"} ELSE {})
      \cup (IF Falsy(b.newPassword) \/ ~isValidPassword(b.newPassword)
            THEN {"newPassword"} ELSE {})
      \cup (IF ~Falsy(b.currentPassword) /\ ~Falsy(b.newPassword)
               /\ b.currentPassword = b.newPassword
            THEN {"newPassword"} ELSE {})

UserDeletionErrors(b) == IF Falsy(b.password) THEN {"password"} ELSE {}

Middlewares == {"validateRegistration", "validateLogin", "validateProfileUpdate",
                "validatePasswordChange", "validateUserDeletion"}

ValidationErrors(mw, b) ==
    CASE mw = "validateRegistration"   -> RegistrationErrors(b)
      [] mw = "validateLogin"          -> LoginErrors(b)
      [] mw = "validateProfileUpdate"  -> ProfileUpdateErrors(b)
      [] mw = "validatePasswordChange" -> PasswordChangeErrors(b)
      [] mw = "validateUserDeletion"   -> UserDeletionErrors(b)

\* the middlewares that end with res.status(400).json({errors}) when the
\* errors array is not empty; validatePasswordChange only logs and returns
SendsErrors(mw) == mw # "validatePasswordChange"

\* what a middleware leaves in req.body for the handler: login and profile
\* update replace the email by its normalizeEmail
Validated(mw, b) ==
    IF mw \in {"validateLogin", "validateProfileUpdate"} /\ b.email # Missing
    THEN [b EXCEPT !.email = normalizeEmail(@)]
    ELSE b

\* the bodies clients send to each middleware: each field it reads is
\* missing, empty, ill-formed or well-formed
BodyEmails    == {Missing, "", "nobody", "a@x.com", "a.b@gmail.com"}
BodyPasswords == {Missing, "", "short", "secret1", "secret2"}
BodyNames     == {Missing, "", "A", "Al"}

Bodies(mw) ==
    CASE mw = "validateRegistration" ->
           {[NoBody EXCEPT !.email = e, !.password = p, !.name = n] :
               e \in BodyEmails, p \in BodyPasswords, n \in BodyNames}
      [] mw = "validateLogin" ->
           {[NoBody EXCEPT !.email = e, !.password = p] :
               e \in BodyEmails, p \in BodyPasswords}
      [] mw = "validateProfileUpdate" ->
           {[NoBody EXCEPT !.email = e, !.name = n] : e \in BodyEmails, n \in BodyNames}
      [] mw = "validatePasswordChange" ->
           {[NoBody EXCEPT !.currentPassword = c, !.newPassword = n] :
               c \in BodyPasswords, n \in BodyPasswords}
      [] mw = "validateUserDeletion" ->
           {[NoBody EXCEPT !.password = p] : p \in BodyPasswords}

\* a request reaches the validation middleware of its route
Arrive(r, mw, b) ==
    /\ FreeSlot(r)
    /\ rq' = [rq EXCEPT ![r] = [IdleReq EXCEPT !.pc = "validate", !.mw = mw, !.body = b]]
    /\ UNCHANGED <<users, nextId, now, issued, mints, rotated, res, client>>

\* the middleware runs: next() without errors, 400 with errors where the
\* middleware sends them, and a bare return where it does not
Validate(r) ==
    /\ rq[r].pc = "validate"
    /\ rq' = IF ValidationErrors(rq[r].mw, rq[r].body) = {}
             THEN [rq EXCEPT ![r].pc = "handler",
                             ![r].body = Validated(rq[r].mw, rq[r].body)]
             ELSE IF SendsErrors(rq[r].mw)
             THEN Respond(r, 400, "none")
             ELSE [rq EXCEPT ![r].pc = "returned"]
    /\ UNCHANGED <<users, nextId, now, issued, mints, rotated, res, client>>

\* the route handler, behind the middleware, answers the request
Handle(r) ==
    /\ rq[r].pc = "handler"
    /\ rq' = Respond(r, 200, "none")
    /\ UNCHANGED <<users, nextId, now, issued, mints, rotated, res, client>>

\* login and register store the access token of the response
StoreToken ==
    /\ client.accessToken # "login"
    /\ client' = [client EXCEPT !.accessToken = "login", !.location = "app"]
    /\ UNCHANGED serverVars

\* the application calls the API through the api instance
ApiCall(c) ==
    /\ client.calls[c].pc = "idle"
    /\ \A d \in Calls : d < c => client.calls[d].pc # "idle"
    /\ client' = [client EXCEPT !.calls[c] = [IdleCall EXCEPT !.pc = "sent"]]
    /\ UNCHANGED serverVars

\* the response interceptor on the answer st to a request of call c, the
\* original one or its retry: a response passes; a 401 on a config not yet
\* marked marks it and posts the refresh with the bare axios; every other
\* error is rejected to the caller
ApiResponse(c, st) ==
    /\ client.calls[c].pc \in {"sent", "retried"}
    /\ client.calls[c].refreshes < MaxAttempts
    /\ client' =
         IF st = 200
         THEN [client EXCEPT !.calls[c].pc = "resolved", !.calls[c].status = st]
         ELSE IF st = 401 /\ NotRetried(c)
         THEN [client EXCEPT !.calls[c].pc = "refreshing",
                             !.calls[c].retry = TRUE,
                             !.calls[c].refreshes = @ + 1]
         ELSE [client EXCEPT !.calls[c].pc = "rejected", !.calls[c].status = st]
    /\ UNCHANGED serverVars

\* the answer to the refresh post, which does not pass the interceptors: on
\* success the new access token is stored and the original request is sent
\* again through api; on failure the stored token is removed, the browser is
\* sent to /login and the refresh error is rejected to the caller
RefreshResponse(c, st) ==
    /\ client.calls[c].pc = "refreshing"
    /\ client.calls[c].retries < MaxAttempts
    /\ client' =
         IF st = 200
         THEN [client EXCEPT !.accessToken = "refreshed",
                             !.calls[c].pc = "retried",
                             !.calls[c].retries = @ + 1]
         ELSE [client EXCEPT !.accessToken = "none",
                             !.location = "/login",
                             !.calls[c].pc = "rejected",
                             !.calls[c].status = st]
    /\ UNCHANGED serverVars

\* the caller has its result; the slot serves the next call
Settle(c) ==
    /\ client.calls[c].pc \in {"resolved", "rejected"}
    /\ client' = [client EXCEPT !.calls[c] = IdleCall]
    /\ UNCHANGED serverVars

\* the clock moves on to a later instant
Tick(t) ==
    /\ NoneDone
    /\ t > now
    /\ now' = t
    /\ UNCHANGED <<users, nextId, rq, issued, mints, rotated, res, client>>

Next ==
    \/ \E e \in Emails, p \in Passwords : Register(e, p)
    \/ \E e \in Emails, p \in Passwords : Login(e, p)
    \/ \E b \in Presentable, c \in Passwords, n \in Passwords : UpdatePassword(b, c, n)
    \/ \E b \in Presentable, p \in Passwords \cup {NoPassword} : DeleteUser(b, p)
    \/ \E b \in Presentable, t \in Presentable, stored \in BOOLEAN : Logout(b, t, stored)
    \/ Send
    \/ \E r \in Reqs, t \in Presentable : RefreshStart(r, t)
    \/ \E r \in Reqs : RefreshPrune(r)
    \/ \E r \in Reqs : RefreshPull(r)
    \/ \E r \in Reqs : RefreshPush(r)
    \/ \E r \in Reqs : RefreshFail(r)
    \/ \E r \in Reqs : Close(r)
    \/ \E t \in Instants : Tick(t)

Spec == Init /\ [][Next]_vars

\* the rotation protocol on its own: registration, the refresh handler, time
NextRefresh ==
    \/ \E e \in Emails, p \in Passwords : Register(e, p)
    \/ Send
    \/ \E r \in Reqs, t \in Presentable : RefreshStart(r, t)
    \/ \E r \in Reqs : RefreshPrune(r)
    \/ \E r \in Reqs : RefreshPull(r)
    \/ \E r \in Reqs : RefreshPush(r)
    \/ \E r \in Reqs : RefreshFail(r)
    \/ \E r \in Reqs : Close(r)
    \/ \E t \in Instants : Tick(t)

SpecRefresh == Init /\ [][NextRefresh]_vars

\* registration with its two halves interleaved, over two email addresses,
\* with login, account deletion and time
NextRegister ==
    \/ \E r \in Reqs, e \in TwoEmails, p \in Passwords : RegisterFind(r, e, p)
    \/ \E r \in Reqs : RegisterCreate(r)
    \/ \E e \in TwoEmails, p \in Passwords : Login(e, p)
    \/ \E b \in Presentable, p \in Passwords \cup {NoPassword} : DeleteUser(b, p)
    \/ Send
    \/ \E t \in Instants : Tick(t)

SpecRegister == Init /\ [][NextRegister]_vars

\* every handler, with two email addresses so that two users exist side by
\* side; the clock makes one step, past the grace window
NextTwoUsers ==
    \/ \E e \in TwoEmails, p \in Passwords : Register(e, p)
    \/ \E e \in TwoEmails, p \in Passwords : Login(e, p)
    \/ \E b \in Presentable, c \in Passwords, n \in Passwords : UpdatePassword(b, c, n)
    \/ \E b \in Presentable, p \in Passwords \cup {NoPassword} : DeleteUser(b, p)
    \/ \E b \in Presentable, t \in Presentable, stored \in BOOLEAN : Logout(b, t, stored)
    \/ Send
    \/ \E r \in Reqs, t \in Presentable : RefreshStart(r, t)
    \/ \E r \in Reqs : RefreshPrune(r)
    \/ \E r \in Reqs : RefreshPull(r)
    \/ \E r \in Reqs : RefreshPush(r)
    \/ \E r \in Reqs : RefreshFail(r)
    \/ \E r \in Reqs : Close(r)
    \/ \E t \in {2 * TickSec} : Tick(t)

SpecTwoUsers == Init /\ [][NextTwoUsers]_vars

\* the rotation protocol with a clock that also reaches the instant at which
\* an entry created one step after the start is older than seven days
NextHousekeeping ==
    \/ \E e \in Emails, p \in Passwords : Register(e, p)
    \/ Send
    \/ \E r \in Reqs, t \in Presentable : RefreshStart(r, t)
    \/ \E r \in Reqs : RefreshPruneCutoff(r)
    \/ \E r \in Reqs : RefreshPull(r)
    \/ \E r \in Reqs : RefreshPush(r)
    \/ \E r \in Reqs : RefreshFail(r)
    \/ \E r \in Reqs : Close(r)
    \/ \E t \in Instants \cup {SevenDaysSec + 2 * TickSec} : Tick(t)

SpecHousekeeping == Init /\ [][NextHousekeeping]_vars

\* the requests that read or write the email path, interleaved, with the
\* addresses as clients type them
NextEmails ==
    \/ \E r \in Reqs, e \in RawEmails, p \in Passwords : RegisterFind(r, e, p)
    \/ \E r \in Reqs : RegisterCreate(r)
    \/ \E r \in Reqs, b \in Presentable, e \in RawEmails : UpdateUserFind(r, b, e)
    \/ \E r \in Reqs : UpdateUserSave(r)
    \/ \E e \in RawEmails, p \in Passwords : Login(e, p)
    \/ Send

SpecEmails == Init /\ [][NextEmails]_vars

\* requests on their way through the validation middlewares; a middleware
\* and a handler that have started run on, and a written response is sent
NextValidation ==
    \/ \E r \in Reqs, mw \in Middlewares : \E b \in Bodies(mw) : Arrive(r, mw, b)
    \/ \E r \in Reqs : Validate(r)
    \/ \E r \in Reqs : Handle(r)
    \/ \E r \in Reqs : Close(r)

SpecValidation ==
    /\ Init
    /\ [][NextValidation]_vars
    /\ \A r \in Reqs : WF_vars(Validate(r)) /\ WF_vars(Handle(r)) /\ WF_vars(Close(r))

\* sessions from registration, their rotation, and password changes that
\* may fall between the steps of a refresh
NextRevocation ==
    \/ \E e \in Emails, p \in Passwords : Register(e, p)
    \/ \E r \in Reqs, tok \in Presentable : RefreshStart(r, tok)
    \/ \E r \in Reqs : RefreshPrune(r)
    \/ \E r \in Reqs : RefreshPull(r)
    \/ \E r \in Reqs : RefreshPush(r)
    \/ \E b \in Presentable, c \in Passwords, n \in Passwords : UpdatePasswordInFlight(b, c, n)
    \/ Send
    \/ \E r \in Reqs : Close(r)
    \/ \E t \in Instants : Tick(t)

SpecRevocation == Init /\ [][NextRevocation]_vars

\* the example client against whatever the network answers
NextClient ==
    \/ StoreToken
    \/ \E c \in Calls : ApiCall(c)
    \/ \E c \in Calls, st \in Statuses : ApiResponse(c, st)
    \/ \E c \in Calls, st \in Statuses : RefreshResponse(c, st)
    \/ \E c \in Calls : Settle(c)

SpecClient == Init /\ [][NextClient]_vars

\* no refresh is between its verdict and its response
Quiet == \A q \in Reqs : ~InFlight(q)

\* every handler, one request at a time: a request is taken up only when no
\* refresh is under way, so a refresh runs from its verdict to its response
\* with nothing but the clock in between
NextSerial ==
    \/ Quiet /\ \E e \in Emails, p \in Passwords : Register(e, p)
    \/ Quiet /\ \E e \in Emails, p \in Passwords : Login(e, p)
    \/ Quiet /\ \E b \in Presentable, c \in Passwords, n \in Passwords : UpdatePassword(b, c, n)
    \/ Quiet /\ \E b \in Presentable, p \in Passwords \cup {NoPassword} : DeleteUser(b, p)
    \/ Quiet /\ \E b \in Presentable, t \in Presentable, stored \in BOOLEAN : Logout(b, t, stored)
    \/ Quiet /\ \E r \in Reqs, t \in Presentable : RefreshStart(r, t)
    \/ Send
    \/ \E r \in Reqs : RefreshPrune(r)
    \/ \E r \in Reqs : RefreshPull(r)
    \/ \E r \in Reqs : RefreshPush(r)
    \/ \E r \in Reqs : RefreshFail(r)
    \/ \E r \in Reqs : Close(r)
    \/ \E t \in Instants : Tick(t)

SpecSerial == Init /\ [][NextSerial]_vars

\* the requests that add a refresh entry (register, login, refresh), freely
\* interleaved, with nothing that revokes on purpose
NextSessions ==
    \/ \E e \in Emails, p \in Passwords : Register(e, p)
    \/ \E e \in Emails, p \in Passwords : Login(e, p)
    \/ Send
    \/ \E r \in Reqs, t \in Presentable : RefreshStart(r, t)
    \/ \E r \in Reqs : RefreshPrune(r)
    \/ \E r \in Reqs : RefreshPull(r)
    \/ \E r \in Reqs : RefreshPush(r)
    \/ \E r \in Reqs : RefreshFail(r)
    \/ \E r \in Reqs : Close(r)
    \/ \E t \in Instants : Tick(t)

SpecSessions == Init /\ [][NextSessions]_vars

\* ------------------------------------------------------- the token codec
\* the subjects handed to the generators: register and refresh pass the
\* document's email, login passes the email of the document it loaded
Subjects == TwoEmails \cup {Undefined}

SignAccess(u, e) ==
    /\ NoneDone
    /\ Cardinality(issued) < MaxSigned
    /\ issued' = issued \cup {generateAccessToken(u, e, now)}
    /\ UNCHANGED <<users, nextId, now, rq, mints, rotated, res, client>>

SignRefresh(u, e) ==
    /\ NoneDone
    /\ Cardinality(issued) < MaxSigned
    /\ issued' = issued \cup {generateRefreshToken(u, e, now)}
    /\ UNCHANGED <<users, nextId, now, rq, mints, rotated, res, client>>

\* the outcome of a verification: the token, whether a payload came back,
\* and the payload
Verified(op, tok, secret) ==
    [NoRes EXCEPT !.op = op,
                  !.body = IF JwtVerify(tok, secret, now) THEN "payload" ELSE "throws",
                  !.token = tok,
                  !.access = Decoded(tok, secret, now)]

VerifyAccess(tok) ==
    /\ NoneDone
    /\ res' = Verified("verifyAccessToken", tok, AccessSecret)
    /\ UNCHANGED <<users, nextId, now, rq, issued, mints, rotated, client>>

VerifyRefresh(tok) ==
    /\ NoneDone
    /\ res' = Verified("verifyRefreshToken", tok, RefreshSecret)
    /\ UNCHANGED <<users, nextId, now, rq, issued, mints, rotated, client>>

\* the generators and the verifiers on their own, with the clock
NextJwt ==
    \/ \E u \in UserIds, e \in Subjects : SignAccess(u, e)
    \/ \E u \in UserIds, e \in Subjects : SignRefresh(u, e)
    \/ \E tok \in issued : VerifyAccess(tok)
    \/ \E tok \in issued : VerifyRefresh(tok)
    \/ Send
    \/ \E t \in Instants : Tick(t)

SpecJwt == Init /\ [][NextJwt]_vars

\* ------------------------------------------------------------------ claims
\* the grace rule as specified: the history holds this very token, retired
\* less than the grace window ago
GraceMatch(doc, tok, t) ==
    \E i \in DOMAIN doc.refreshHistory :
        /\ doc.refreshHistory[i].token = tok
        /\ t - doc.refreshHistory[i].lastUsedAt < GraceSec

\* C1: a refresh presenting a correctly signed token within its seven-day
\* lifetime that is not in refreshToken, while no history entry is younger
\* than the grace window (so there is no grace match), is answered 403 and
\* leaves the user's refreshToken empty.
C1_ReuseRevokesAll ==
    [][\A r \in Reqs, t \in Presentable :
         ( /\ RefreshStart(r, t)
           /\ t.secret = RefreshSecret
           /\ now < t.iat + SevenDaysSec
           /\ t.userId \in DOMAIN users
           /\ ~tokenData(users[t.userId], t)
           /\ ~recentlyUsed(users[t.userId], now) )
         => /\ rq'[r].status = 403
            /\ users'[t.userId].refreshToken = <<>>]_vars

\* C2: a refresh is accepted through the grace path only if the rotation
\* history holds the presented token itself, retired less than 30 s ago.
C2_GraceNeedsMatch ==
    [][\A r \in Reqs, t \in Presentable :
         (RefreshStart(r, t) /\ rq'[r].pc = "prune" /\ rq'[r].grace)
         => GraceMatch(users[t.userId], t, now)]_vars

\* C3: once a refresh presenting T has succeeded, a refresh presenting T more
\* than 30 s after the latest rotation of T is rejected as reuse (T still
\* verifies, its user exists and T has not been pushed onto refreshToken again).
C3_RotatedOutStaysOut ==
    \A e \in rotated :
        ( /\ \A g \in rotated : g.token = e.token => now - g.at > GraceSec
          /\ verifyRefreshToken(e.token, now)
          /\ e.token.userId \in DOMAIN users
          /\ ~tokenData(users[e.token.userId], e.token) )
        => Decide(e.token) = "reuse"

\* C4: right after a successful updatePassword no refresh token issued to
\* that user before is accepted by refresh.
C4_PasswordChangeInvalidates ==
    [][\A b \in Presentable, c \in Passwords, n \in Passwords :
         (UpdatePassword(b, c, n) /\ res'.status = 200)
         => \A t \in issued :
               t.userId = b.userId => (Decide(t) \notin {"rotate", "grace"})']_vars

\* C5: while a refresh that found T in refreshToken is under way, a second
\* refresh presenting T, less than 30 s after T was minted, is accepted too.
C5_RaceBothSucceed ==
    [][\A r1 \in Reqs, r2 \in Reqs, t \in issued :
         ( /\ RefreshStart(r2, t)
           /\ r1 # r2 /\ InFlight(r1)
           /\ rq[r1].token = t /\ ~rq[r1].grace
           /\ now < t.iat + GraceSec )
         => rq'[r2].pc = "prune"]_vars

\* C6: the user was registered with the one token T and nothing else was
\* minted but by two refreshes presenting T (mints = 3); when the second of
\* them answers 200 the user's refreshToken holds exactly one entry.
C6_RaceLeavesOneEntry ==
    [][\A r \in Reqs :
         ( /\ RefreshPush(r)
           /\ mints = 3
           /\ \E e \in rotated : e.token = rq[r].token
           /\ rq[r].userId \in DOMAIN users )
         => Len(users'[rq[r].userId].refreshToken) = 1]_vars

\* C7: a token that was rotated out and has since been accepted once through
\* the grace path is not accepted through the grace path again.
C7_GraceAtMostOnce ==
    \A e \in rotated, g \in rotated :
        (~e.grace /\ g.grace /\ g.token = e.token)
        => Decide(e.token) # "grace"

\* C8: a refresh presenting a correctly signed refresh token issued more than
\* seven days ago is answered 401 with the cookie cleared and removes nothing
\* from refreshToken.
C8_ExpiredIs401 ==
    [][\A r \in Reqs, t \in Presentable :
         ( /\ RefreshStart(r, t)
           /\ t.secret = RefreshSecret
           /\ t.iat + SevenDaysSec < now )
         => /\ rq'[r].status = 401
            /\ rq'[r].cookie = "cleared"
            /\ users' = users]_vars

\* C9: a refresh whose cookie fails verifyRefreshToken is answered 401 with
\* the cookie cleared and changes no user document.
C9_InvalidIs401 ==
    [][\A r \in Reqs, t \in Presentable :
         ( /\ RefreshStart(r, t)
           /\ t # NoToken
           /\ ~verifyRefreshToken(t, now) )
         => /\ rq'[r].status = 401
            /\ rq'[r].cookie = "cleared"
            /\ users' = users]_vars

\* C10: a refresh presenting a verifiable token whose user no longer exists
\* is answered 401 with the cookie cleared and mints nothing.
C10_MissingUserIs401 ==
    [][\A r \in Reqs, t \in Presentable :
         ( /\ RefreshStart(r, t)
           /\ verifyRefreshToken(t, now)
           /\ t.userId \notin DOMAIN users )
         => /\ rq'[r].status = 401
            /\ rq'[r].cookie = "cleared"
            /\ rq'[r].minted = NoToken
            /\ issued' = issued]_vars

\* C11: a refresh that presented a cookie and does not end with a 200 (a
\* failing verdict, or a store failure part-way) clears the cookie in its
\* response; a refresh that ends with a 200 sets the cookie to the refresh
\* token minted by this very request.
C11_CookieFollowsOutcome ==
    [][ /\ \A r \in Reqs, t \in Presentable :
             (RefreshStart(r, t) /\ t # NoToken /\ rq'[r].pc = "done")
             => (rq'[r].status # 200 /\ rq'[r].cookie = "cleared")
        /\ \A r \in Reqs :
             RefreshFail(r) => (rq'[r].status # 200 /\ rq'[r].cookie = "cleared")
        /\ \A r \in Reqs :
             RefreshPush(r)
             => /\ rq'[r].status = 200
                /\ rq'[r].cookie = "set"
                /\ rq'[r].minted = generateRefreshToken(rq[r].userId, rq[r].email, now)
                /\ rq'[r].minted \in issued' ]_vars

\* C11 witness: a refresh has just been refused as reuse, its cookie cleared
C11_RefusedAndCleared ==
    \E r \in Reqs :
        rq[r].pc = "done" /\ rq[r].status = 403 /\ rq[r].cookie = "cleared"
        /\ users # <<>>

\* C12: a refresh that ends without a 200 for a reason other than reuse
\* detection leaves every user document as it was when the request began: a
\* failing verdict changes nothing, and when the only refresh since the
\* user registered (mints = 2) is cut short by a store failure, the user's
\* refreshToken still holds the registered entry and the history is empty.
C12_FailureKeepsState ==
    [][ /\ \A r \in Reqs, t \in Presentable :
             (RefreshStart(r, t) /\ rq'[r].pc = "done" /\ Decide(t) # "reuse")
             => users' = users
        /\ \A r \in Reqs :
             (RefreshFail(r) /\ mints = 2 /\ rq[r].userId \in DOMAIN users)
             => /\ users'[rq[r].userId].refreshToken
                     = <<TokenEntry(rq[r].token, rq[r].token.iat)>>
                /\ users'[rq[r].userId].refreshHistory = <<>> ]_vars

\* C13: a login that fails, whether the email is unknown or the password is
\* wrong, always gives the same response (401 "Invalid credentials", no cookie,
\* no token) and changes no user document.
C13_LoginFailureUniform ==
    [][\A e \in Emails, p \in Passwords :
         ( /\ Login(e, p)
           /\ \/ FindByEmail(e) = {}
              \/ \E u \in FindByEmail(e) : ~comparePassword(users[u], p) )
         => /\ res' = Reply("login", 401, "Invalid credentials", "none")
            /\ users' = users
            /\ issued' = issued]_vars

\* C13 witness: a login with a registered email and a wrong password has just
\* been refused, while the user holds a refresh token and a rotation history
C13_WrongPasswordRefused ==
    /\ res.op = "login" /\ res.status = 401
    /\ \E u \in DOMAIN users :
         users[u].refreshToken # <<>> /\ users[u].refreshHistory # <<>>

\* C14: a register that finds its email unused answers 201 with an access
\* token that verifies; afterwards exactly one user has that email, its
\* refreshToken holds exactly one entry, and that entry's token is the one
\* set in the response cookie.
C14_RegisterCreatesOneSession ==
    [][\A r \in Reqs :
         (RegisterCreate(r) /\ FindByEmail(rq[r].email) = {})
         => /\ res'.status = 201
            /\ res'.cookie = "set"
            /\ verifyAccessToken(res'.access, now)
            /\ Cardinality({u \in DOMAIN users' : users'[u].email = rq[r].email}) = 1
            /\ \A u \in DOMAIN users' :
                 users'[u].email = rq[r].email
                 => /\ Len(users'[u].refreshToken) = 1
                    /\ users'[u].refreshToken[1].token = res'.token]_vars

\* C14 witness: a second user has just been registered with a 201
C14_SecondUserRegistered ==
    /\ res.op = "register" /\ res.status = 201
    /\ Cardinality(DOMAIN users) = 2

\* C15: a register for an email that is already registered answers 409,
\* creates no user and mints nothing, also when the email was taken by another
\* register after this one had looked it up.
C15_TakenEmailIs409 ==
    [][ /\ \A r \in Reqs, e \in TwoEmails, p \in Passwords :
             (RegisterFind(r, e, p) /\ FindByEmail(e) # {})
             => (res'.status = 409 /\ users' = users /\ issued' = issued)
        /\ \A r \in Reqs :
             (RegisterCreate(r) /\ FindByEmail(rq[r].email) # {})
             => (res'.status = 409 /\ users' = users /\ issued' = issued) ]_vars

C17_LogoutAlways200 ==
    [][\A b \in Presentable, t \in Presentable, stored \in BOOLEAN :
         (Logout(b, t, stored) /\ authenticate(b))
         => (res'.status = 200 /\ res'.cookie = "cleared")]_vars

\* every user document but those in own is still there and the same
OthersUntouched(own) ==
    \A u \in DOMAIN users \ own : u \in DOMAIN users' /\ users'[u] = users[u]

\* C18: a request made on behalf of one user (a register or login with its
\* email, a refresh presenting a token issued to it, a logout, updatePassword
\* or deleteUser authenticated as it) never changes or removes the document
\* (password, refreshToken, refreshHistory) of any other user.
C18_CrossUserIsolation ==
    [][users' # users =>
        /\ \A e \in TwoEmails, p \in Passwords :
             (Register(e, p) \/ Login(e, p)) => OthersUntouched(FindByEmail(e))
        /\ \A r \in Reqs, t \in Presentable :
             RefreshStart(r, t) => OthersUntouched({t.userId})
        /\ \A r \in Reqs :
             (RefreshPrune(r) \/ RefreshPull(r) \/ RefreshPush(r))
             => OthersUntouched({rq[r].userId})
        /\ \A b \in Presentable :
             ( \/ \E t \in Presentable, stored \in BOOLEAN : Logout(b, t, stored)
               \/ \E c \in Passwords, n \in Passwords : UpdatePassword(b, c, n)
               \/ \E p \in Passwords : DeleteUser(b, p) )
             => OthersUntouched({b.userId}) ]_vars

\* C18 witness: two users exist, one has just had its password changed and
\* its refreshToken emptied, the other still holds its sessions
C18_OtherUserKeepsSessions ==
    /\ res.op = "updatePassword" /\ res.status = 200
    /\ \E u \in DOMAIN users, v \in DOMAIN users :
         /\ u # v
         /\ users[u].refreshToken = <<>>
         /\ users[v].refreshToken # <<>>

\* C19: an authenticated updatePassword whose current password does not match
\* is answered 401 and changes no user document; one whose current password
\* matches stores the new password and empties refreshToken; and a stored
\* password never changes in any other step.
C19_PasswordChangeReverifies ==
    [][ /\ res'.op = "updatePassword" =>
             \A b \in Presentable, c \in Passwords, n \in Passwords :
               (UpdatePassword(b, c, n) /\ authenticate(b))
               => IF users[b.userId].password = Hash(c)
                  THEN /\ res'.status = 200
                       /\ users'[b.userId].password = Hash(n)
                       /\ users'[b.userId].refreshToken = <<>>
                  ELSE /\ res'.status = 401
                       /\ users' = users
        /\ \A u \in DOMAIN users \cap DOMAIN users' :
             users'[u].password # users[u].password
             => (res'.op = "updatePassword" /\ res'.status = 200) ]_vars

\* C19 witness: an updatePassword with a wrong current password has just been
\* refused while the user holds a refresh token and a rotation history
C19_WrongCurrentRefused ==
    /\ res.op = "updatePassword" /\ res.status = 401
    /\ res.body = "Current password is incorrect"
    /\ \E u \in DOMAIN users :
         users[u].refreshToken # <<>> /\ users[u].refreshHistory # <<>>

\* C20: an authenticated deleteUser without a password or with a wrong one is
\* answered 400 or 401 and changes no user document; once the user is deleted,
\* a refresh presenting a token issued to it is refused, and no refresh
\* answers 200 with a new token pair for a user that no longer exists.
C20_DeleteVerifiesAndRevokes ==
    [][ /\ res'.op = "deleteUser" =>
             \A b \in Presentable, p \in Passwords \cup {NoPassword} :
               ( /\ DeleteUser(b, p) /\ authenticate(b)
                 /\ (p = NoPassword \/ users[b.userId].password # Hash(p)) )
               => (res'.status \in {400, 401} /\ users' = users)
        /\ \A r \in Reqs, t \in issued :
             (RefreshStart(r, t) /\ t.userId \notin DOMAIN users)
             => (rq'[r].pc = "done" /\ rq'[r].status # 200)
        /\ \A r \in Reqs :
             RefreshPush(r) => rq[r].userId \in DOMAIN users ]_vars

\* C21: token kinds are not interchangeable. An access token presented as the
\* refresh cookie never passes verifyRefreshToken: the refresh is refused and
\* nothing is minted or stored for it. A refresh token presented as the Bearer
\* token never passes verifyAccessToken, so authenticate never admits it.
C21_KindsNotInterchangeable ==
    /\ [](\A t \in issued : ~authenticate(t))
    /\ [][\A r \in Reqs, t \in issued :
             RefreshStart(r, AccessOf(t))
               => /\ rq'[r].pc = "done"
                  /\ rq'[r].status \notin {200, 201}
                  /\ rq'[r].minted = NoToken
                  /\ mints' = mints
                  /\ users' = users]_vars

\* an access token came as the refresh cookie and was refused, while its
\* refresh twin is refused by authenticate and the access token is admitted
C21_AccessTokenAsCookieRefused ==
    \E r \in Reqs, t \in issued :
        /\ rq[r].pc = "done"
        /\ rq[r].token = AccessOf(t)
        /\ rq[r].status = 500
        /\ authenticate(AccessOf(t))
        /\ ~authenticate(t)

\* the three 401 bodies of the authenticate middleware
AuthRefusals == {"No token provided", "Invalid or expired token", "Unauthorized"}

\* C22: access tokens are stateless. No user document ever holds an access
\* token, and a request behind authenticate that carries an unexpired access
\* token of an existing user is let through to its handler whatever became of
\* the refresh token issued with it (rotated, logged out, revoked).
C22_AccessTokensStateless ==
    /\ [](\A u \in DOMAIN users :
            /\ \A i \in DOMAIN users[u].refreshToken :
                   users[u].refreshToken[i].token.secret # AccessSecret
            /\ \A i \in DOMAIN users[u].refreshHistory :
                   users[u].refreshHistory[i].token.secret # AccessSecret)
    /\ [][res' # NoRes =>
            \A t \in issued :
              LET b == AccessOf(t)
              IN  (/\ now < b.exp
                   /\ b.userId \in DOMAIN users
                   /\ \/ \E c \in Passwords, n \in Passwords : UpdatePassword(b, c, n)
                      \/ \E p \in Passwords \cup {NoPassword} : DeleteUser(b, p)
                      \/ \E k \in Presentable, stored \in BOOLEAN : Logout(b, k, stored))
                  => res'.body \notin AuthRefusals]_vars

\* no user has a refresh token left and a request has just passed authenticate
\* (updatePassword went on to compare the current password)
C22_AdmittedAfterRevocation ==
    /\ res.op = "updatePassword"
    /\ res.body = "Current password is incorrect"
    /\ DOMAIN users # {}
    /\ issued # {}
    /\ \A u \in DOMAIN users : users[u].refreshToken = <<>>

C24_RotationPostState ==
    [][\A r \in Reqs :
         (RefreshPush(r) /\ ~rq[r].grace /\ rq[r].userId \in DOMAIN users) =>
           LET T    == rq[r].token
               N    == rq'[r].minted
               doc  == users[rq[r].userId]
               doc2 == users'[rq[r].userId]
           IN  /\ rq'[r].status = 200
               /\ rq'[r].cookie = "set"
               /\ T \notin ActiveTokens(doc2)
               /\ Len(doc2.refreshToken) = Len(doc.refreshToken) + 1
               /\ doc2.refreshToken[Len(doc2.refreshToken)].token = N
               /\ doc2.refreshHistory = <<HistoryEntry(T, now)>>]_vars

\* C25: no lost updates between sessions of one user. Take a refresh that
\* presented an ACTIVE token T and a second request (a login, or a refresh of
\* another token) that minted a refresh token for the same user after T was
\* issued, in any interleaving. When the refresh completes with 200 its new
\* token is in ACTIVE, T is absent, and in ACTIVE is every other refresh
\* token minted for the user that nobody has presented for rotation and that
\* is not older than seven days.
C25_NoLostUpdates ==
    [][\A r \in Reqs :
         (/\ RefreshPush(r)
          /\ ~rq[r].grace
          /\ rq[r].userId \in DOMAIN users
          /\ \E L \in issued : /\ L.userId = rq[r].userId
                                /\ L # rq[r].token
                                /\ L.iat >= rq[r].token.iat) =>
           LET T      == rq[r].token
               N      == rq'[r].minted
               active == ActiveTokens(users'[rq[r].userId])
           IN  /\ N \in active
               /\ T \notin active
               /\ \A L \in issued :
                    (/\ L.userId = rq[r].userId
                     /\ L # T
                     /\ \A g \in rotated : g.token # L
                     /\ \A q \in Reqs : InFlight(q) => rq[q].token # L
                     /\ now - L.iat <= SevenDaysSec)
                    => L \in active]_vars

\* C26: the rotation history is a single slot. In every reachable state,
\* also while refreshes of one user interleave, refreshHistory holds at most
\* one entry, and that entry is the one of the user's most recent rotation.
C26_HistorySingleSlot ==
    \A u \in DOMAIN users :
        LET h == users[u].refreshHistory
        IN  /\ Len(h) <= 1
            /\ Len(h) = 1 =>
                  \E g \in rotated :
                      /\ g.token = h[1].token
                      /\ g.at = h[1].lastUsedAt
                      /\ \A k \in rotated : k.token.userId = u => k.at <= g.at

\* C27: in every reachable state no two entries of a user's ACTIVE set carry
\* the same token string (a token string being fixed by the user id, the
\* email and the second of issuance).
C27_ActiveTokensDistinct ==
    \A u \in DOMAIN users :
        \A i, j \in DOMAIN users[u].refreshToken :
            users[u].refreshToken[i].token = users[u].refreshToken[j].token => i = j

\* C28: a successful login adds exactly one entry to the user's ACTIVE set,
\* the entry of the refresh token it set in the cookie, and leaves every
\* entry that was there and the rotation history as they were.
C28_LoginAddsOneEntry ==
    [][\A e \in Emails, p \in Passwords :
         (Login(e, p) /\ res'.status = 200) =>
           \A u \in FindByEmail(e) :
               /\ Len(users'[u].refreshToken) = Len(users[u].refreshToken) + 1
               /\ SubSeq(users'[u].refreshToken, 1, Len(users[u].refreshToken))
                     = users[u].refreshToken
               /\ users'[u].refreshToken[Len(users'[u].refreshToken)].token = res'.token
               /\ users'[u].refreshHistory = users[u].refreshHistory]_vars

\* C29: the rotation history of a user is empty right after a successful
\* login or register for that user, so that a grace window opened by an
\* earlier rotation does not stay open across a fresh login.
C29_HistoryEmptyAfterLogin ==
    [][\A e \in Emails, p \in Passwords :
         /\ (Login(e, p) /\ res'.status = 200) =>
               \A u \in FindByEmail(e) : users'[u].refreshHistory = <<>>
         /\ (Register(e, p) /\ res'.status = 201) =>
               users'[nextId].refreshHistory = <<>>]_vars

\* C29, amended: the rotation history is empty right after a successful
\* register, and a successful login leaves the rotation history exactly as it
\* was, so a grace window opened by an earlier rotation stays open across a
\* fresh login.
C29_LoginKeepsHistory ==
    [][\A e \in Emails, p \in Passwords :
         /\ (Login(e, p) /\ res'.status = 200) =>
               \A u \in FindByEmail(e) : users'[u].refreshHistory = users[u].refreshHistory
         /\ (Register(e, p) /\ res'.status = 201) =>
               users'[nextId].refreshHistory = <<>>]_vars

\* a login has just succeeded for a user whose history holds a rotation
C29_LoggedInWithOpenWindow ==
    /\ res.op = "login"
    /\ res.status = 200
    /\ res.token.userId \in DOMAIN users
    /\ users[res.token.userId].refreshHistory # <<>>

\* C30: revokeAll on password change empties both collections. Right after
\* updatePassword answered success, the user's ACTIVE set is empty and the
\* user's rotation history is empty.
C30_PasswordChangeEmptiesBoth ==
    [][(res'.op = "updatePassword" /\ res'.status = 200) =>
         \A b \in Presentable, c \in Passwords, n \in Passwords :
             UpdatePassword(b, c, n) =>
                 /\ users'[b.userId].refreshToken = <<>>
                 /\ users'[b.userId].refreshHistory = <<>>]_vars

\* what a refresh step took away: the entries of the user's refreshToken that
\* the step did not keep
Removed(u) ==
    {users[u].refreshToken[i] : i \in DOMAIN users[u].refreshToken}
      \ {users'[u].refreshToken[i] : i \in DOMAIN users'[u].refreshToken}

\* C31: housekeeping on rotation. When a refresh answers 200 the user's ACTIVE
\* set holds no entry created more than seven days before the refresh (its
\* own sevenDaysAgo), and no step of the refresh removes an entry younger
\* than seven days other than an entry of the presented token.
C31_PruneOnRotation ==
    [][\A r \in Reqs :
         (InFlight(r) /\ rq[r].userId \in DOMAIN users) =>
           LET u == rq[r].userId
           IN  /\ RefreshPush(r) =>
                     \A i \in DOMAIN users'[u].refreshToken :
                         ~(users'[u].refreshToken[i].createdAt < rq[r].cutoff)
               /\ (RefreshPruneCutoff(r) \/ RefreshPull(r) \/ RefreshPush(r)) =>
                     \A e \in Removed(u) :
                         \/ e.createdAt < now - SevenDaysSec
                         \/ e.token = rq[r].token]_vars

\* a refresh has answered 200 after its clean-up took an old entry away: an
\* earlier rotation of the same user left an entry of another token more than
\* seven days ago, and only the entry of this refresh is left
C31_OldEntryPruned ==
    \E r \in Reqs :
        /\ rq[r].pc = "done"
        /\ rq[r].status = 200
        /\ rq[r].token.userId \in DOMAIN users
        /\ \E g \in rotated :
              /\ g.token.userId = rq[r].token.userId
              /\ g.at # rq[r].token.iat
              /\ g.at + SevenDaysSec < now
        /\ ActiveTokens(users[rq[r].token.userId]) = {rq[r].minted}
        /\ Len(users[rq[r].token.userId].refreshToken) = 1

\* C32: email uniqueness. In every reachable state no two stored users have
\* the same normalized (lower-cased, trimmed) email, whatever the sequence and
\* the interleaving of register and updateUser requests.
C32_EmailsUnique ==
    \A u \in DOMAIN users, v \in DOMAIN users :
        SchemaEmail(users[u].email) = SchemaEmail(users[v].email) => u = v

\* two users are stored, and a write of an email another user holds has just
\* been turned down by the store (register or updateUser answered 500)
C32_DuplicateWriteRejected ==
    /\ Cardinality(DOMAIN users) = 2
    /\ res.op \in {"register", "updateUser"}
    /\ res.status = 500

\* the refresh token strings that have left u's ACTIVE set: every entry of
\* ACTIVE is stored in the step that mints it, so a minted token naming u that
\* is absent from the set has been removed from it (rotation, logout, pruning
\* or revocation); a login's token, never stored, is left out
RemovedFrom(u) ==
    {t \in issued : /\ t.secret = RefreshSecret
                    /\ t.userId = u
                    /\ t.email # Undefined
                    /\ t \notin ActiveTokens(users[u])}

\* C33: the token lifecycle is one-way. Once a refresh token string has been
\* removed from a user's ACTIVE set it is never in that user's ACTIVE set
\* again: no step puts a removed string back.
C33_RemovedStaysOut ==
    [][\A u \in DOMAIN users \cap DOMAIN users' :
         \A t \in RemovedFrom(u) : t \notin ActiveTokens(users'[u])]_vars

\* C34: revocation by password change is not undone by an in-flight refresh.
\* When a refresh that a successful updatePassword of the same user overtook
\* answers 200, so that both have completed, the user's ACTIVE set holds no
\* refresh token of the session from before the password change: neither the
\* token the refresh presented nor the one it minted.
C34_RevocationSurvivesRefresh ==
    [][\A r \in Reqs :
         (RefreshPush(r) /\ rq[r].overtaken /\ rq[r].userId \in DOMAIN users) =>
           /\ rq'[r].minted \notin ActiveTokens(users'[rq[r].userId])
           /\ rq[r].token \notin ActiveTokens(users'[rq[r].userId])]_vars

\* C35: every request that reaches one of the validation middlewares
\* eventually is passed on to the next handler or receives a 400 response; no
\* request with invalid input is left without a response.
C35_ValidatedOrRefused ==
    \A r \in Reqs :
        (rq[r].pc = "validate") ~>
            (rq[r].pc = "handler" \/ (rq[r].pc = "done" /\ rq[r].status = 400))

\* C36: register-then-login round trip. For every email e and password p
\* that registration accepts, once register(e, p) has stored the user a login
\* with the same e and p finds that user and succeeds: the normalisation on
\* the login path leads to the email the register path stored.
C36_RegisterThenLogin ==
    [][\A e \in RawEmails, p \in Passwords :
         (/\ Login(e, p)
          /\ \E u \in DOMAIN users : /\ users[u].email = SchemaEmail(e)
                                     /\ users[u].password = Hash(p)) =>
           /\ res'.status = 200
           /\ res'.token.userId \in DOMAIN users
           /\ users[res'.token.userId].email = SchemaEmail(e)]_vars

\* C37: after a user's account has been deleted, every request to an
\* authenticated route that carries a still unexpired access token of that
\* user is answered 401 by authenticate and does not reach the handler: the
\* body is the middleware's "Unauthorized" and no document changes.
C37_DeletedUserRefused ==
    [][res' # NoRes =>
         \A t \in issued :
           LET b == AccessOf(t)
           IN  (/\ now < b.exp
                /\ b.userId \notin DOMAIN users
                /\ \/ \E c \in Passwords, n \in Passwords : UpdatePassword(b, c, n)
                   \/ \E p \in Passwords \cup {NoPassword} : DeleteUser(b, p)
                   \/ \E k \in Presentable, stored \in BOOLEAN : Logout(b, k, stored))
               => /\ res'.status = 401
                  /\ res'.body = "Unauthorized"
                  /\ res'.cookie = "none"
                  /\ users' = users]_vars

\* a request with an unexpired access token of a deleted user has just been
\* answered 401 "Unauthorized"
C37_RefusedAfterDeletion ==
    /\ res.status = 401
    /\ res.body = "Unauthorized"
    /\ \E t \in issued : /\ now < AccessOf(t).exp
                          /\ t.userId \notin DOMAIN users

\* C38: the client's response interceptor never loops. For each API call it
\* makes at most one refresh attempt and at most one retry; a 401 on the
\* retried request is rejected to the caller without another refresh, and a
\* failed refresh attempt is rejected to the caller with the stored access
\* token cleared, without a retry.
C38_InterceptorBounded ==
    /\ [](\A c \in Calls : client.calls[c].refreshes <= 1 /\ client.calls[c].retries <= 1)
    /\ [][\A c \in Calls :
            /\ (client.calls[c].pc = "retried" /\ ApiResponse(c, 401)) =>
                  /\ client'.calls[c].pc = "rejected"
                  /\ client'.calls[c].status = 401
                  /\ client'.calls[c].refreshes = client.calls[c].refreshes
            /\ \A st \in Statuses \ {200} :
                  RefreshResponse(c, st) =>
                    /\ client'.calls[c].pc = "rejected"
                    /\ client'.calls[c].status = st
                    /\ client'.accessToken = "none"
                    /\ client'.calls[c].retries = client.calls[c].retries]_vars

\* a call was refreshed for once and retried once, the retry was answered
\* 401, and the call has been rejected with it
C38_RetryRejected ==
    \E c \in Calls :
        /\ client.calls[c].pc = "rejected"
        /\ client.calls[c].status = 401
        /\ client.calls[c].refreshes = 1
        /\ client.calls[c].retries = 1
        /\ client.accessToken = "refreshed"

====
